---- MODULE Spec2Model ----
(***************************************************************************)
(* A model of the spreadsheet engine of src/model.c: the grid of cells,    *)
(* reference lookup and generation, formula parsing, recursive evaluation  *)
(* with the per-cell evaluation state, formula rendering, and the edit     *)
(* operations set_cell_value and clear_cell.                               *)
(*                                                                         *)
(* Text is a sequence of one-character strings.  A double is a record      *)
(* [k, v]: k = "fin" with v the value in units of 10^-7 (seven decimal     *)
(* digits, one more than "%f" prints), k = "huge" the finite double 1e308  *)
(* with sign v (it absorbs small addends and overflows when doubled),      *)
(* k = "inf" with sign v, k = "nan", and k = "big" any other finite double *)
(* outside the fixed-point range.  A Cell* is the flat index               *)
(* row * NUM_COLS + column of the cell it points at.                       *)
(***************************************************************************)
EXTENDS Integers, Sequences, FiniteSets, TLC

VARIABLES spreadsheet, display, last, edits, crashed, probe

vars == <<spreadsheet, display, last, edits, crashed, probe>>

\* Grid size (model.h; scaled down here).
NUM_ROWS == 2
NUM_COLS == 2

\* src/model.c:13
MAX_TERMS == 10

\* Number of edit operations explored from a fresh grid.
MaxEdits == 4

(***************************************************************************)
(* Characters.                                                             *)
(***************************************************************************)
AsciiTable ==
  <<" ", "!", "dquote", "#", "$", "%", "&", "'", "(", ")", "*", "+", ",", "-", ".", "/",
    "0", "1", "2", "3", "4", "5", "6", "7", "8", "9", ":", ";", "<", "=", ">", "?",
    "@", "A", "B", "C", "D", "E", "F", "G", "H", "I", "J", "K", "L", "M", "N", "O",
    "P", "Q", "R", "S", "T", "U", "V", "W", "X", "Y", "Z", "[", "bslash", "]", "^", "_",
    "bquote", "a", "b", "c", "d", "e", "f", "g", "h", "i", "j", "k", "l", "m", "n", "o",
    "p", "q", "r", "s", "t", "u", "v", "w", "x", "y", "z">>

\* The character code of c, and the character of code n (the %c conversion).
\* Three characters that TLA+ strings hold badly are named.
OrdTable == [c \in {AsciiTable[i] : i \in 1..Len(AsciiTable)} |->
               31 + (CHOOSE i \in 1..Len(AsciiTable) : AsciiTable[i] = c)]

Ord(c) == OrdTable[c]

Chr(n) == AsciiTable[n - 31]

IsDigit(c) == Ord(c) >= Ord("0") /\ Ord(c) <= Ord("9")

DigitVal(c) == Ord(c) - Ord("0")

ToLower(c) == IF Ord(c) >= Ord("A") /\ Ord(c) <= Ord("Z") THEN Chr(Ord(c) + 32) ELSE c

Min(a, b) == IF a < b THEN a ELSE b

\* F(v), with v evaluated once and then named.
With(v, F(_)) == CHOOSE r \in {F(b) : b \in {v}} : TRUE

Abs(n) == IF n < 0 THEN -n ELSE n

\* The text from position i on (pointer arithmetic text + (i - 1)).
From(s, i) == SubSeq(s, i, Len(s))

\* The first n characters of s (what snprintf keeps of a longer result).
Truncate(s, n) == SubSeq(s, 1, Min(Len(s), n))

\* Does s continue with the lower-case word w at position i, ignoring case?
MatchesAt(s, i, w) ==
  /\ i + Len(w) - 1 <= Len(s)
  /\ \A j \in 1..Len(w) : ToLower(s[i + j - 1]) = w[j]

\* Number of leading blanks skipped by strtol and strtod (isspace).
RECURSIVE SkipSpace(_, _)
SkipSpace(s, i) == IF i <= Len(s) /\ s[i] = " " THEN SkipSpace(s, i + 1) ELSE i

\* Length of the run of decimal digits of s starting at position i.
RECURSIVE DigitRun(_, _)
DigitRun(s, i) == IF i <= Len(s) /\ IsDigit(s[i]) THEN 1 + DigitRun(s, i + 1) ELSE 0

\* Value of the n digits of s from position i, saturating at cap.
RECURSIVE DigitsValue(_, _, _, _, _)
DigitsValue(s, i, n, acc, cap) ==
  IF n = 0 THEN acc
  ELSE With(Min(acc * 10 + DigitVal(s[i]), cap), LAMBDA a :
         DigitsValue(s, i + 1, n - 1, a, cap))

\* Decimal digits of n >= 0 (%d of a non-negative int).
RECURSIVE DecStr(_)
DecStr(n) == IF n < 10 THEN <<Chr(Ord("0") + n)>>
             ELSE DecStr(n \div 10) \o <<Chr(Ord("0") + (n % 10))>>

\* The %d conversion.
FormatD(n) == IF n < 0 THEN <<"-">> \o DecStr(-n) ELSE DecStr(n)

\* n copies of the character c.
Repeat(c, n) == [i \in 1..n |-> c]

(***************************************************************************)
(* Doubles.                                                                *)
(***************************************************************************)
\* Units per 1.0 of a "fin" double, and the largest "fin" magnitude.
Tick == 10 ^ 7

FinMax == 100 * Tick

Fin(v) == [k |-> "fin", v |-> v]

Zero == Fin(0)

NAN == [k |-> "nan", v |-> 0]

Inf(sign) == [k |-> "inf", v |-> sign]

INFINITY == Inf(1)

Huge(sign) == [k |-> "huge", v |-> sign]

Big(sign) == [k |-> "big", v |-> sign]

isnan(x) == x.k = "nan"

isinf(x) == x.k = "inf"

\* A finite double of the fixed-point range, every sum of which is exact.
IsExact(x) == x.k = "fin"

\* The double v ticks, or "big" when it leaves the fixed-point range.
Finite(v) == IF Abs(v) <= FinMax THEN Fin(v) ELSE Big(IF v < 0 THEN -1 ELSE 1)

\* An addition that keeps its first non-zero operand.
KeepFirst(a, b) == IF a = Zero THEN b ELSE a

\* a + b in IEEE-754 double arithmetic.
DAdd(a, b) ==
  IF isnan(a) \/ isnan(b) THEN NAN
  ELSE IF isinf(a) THEN (IF isinf(b) /\ b.v # a.v THEN NAN ELSE a)
  ELSE IF isinf(b) THEN b
  ELSE IF a.k = "huge" THEN
         (IF b.k = "huge" THEN (IF a.v = b.v THEN Inf(a.v) ELSE Zero) ELSE a)
  ELSE IF b.k = "huge" THEN b
  ELSE IF a.k = "big" THEN a
  ELSE IF b.k = "big" THEN b
  ELSE Finite(a.v + b.v)

\* -x.
DNeg(x) == IF x.k = "fin" THEN Fin(-x.v)
           ELSE IF x.k = "nan" THEN x
           ELSE [x EXCEPT !.v = -x.v]

(***************************************************************************)
(* strtol(s, &end, 10) and strtod(s, &end): the value and the number of    *)
(* characters before end (0: no conversion, end = s).                      *)
(***************************************************************************)
strtol(s) ==
  With(SkipSpace(s, 1), LAMBDA i :
  With(IF i <= Len(s) /\ s[i] \in {"+", "-"} THEN i + 1 ELSE i, LAMBDA j :
  With(DigitRun(s, j), LAMBDA n :
    IF n = 0 THEN [val |-> 0, len |-> 0]
    ELSE [val |-> (IF j > i /\ s[i] = "-" THEN -1 ELSE 1)
                    * DigitsValue(s, j, n, 0, 10 ^ 8),
          len |-> j + n - 1])))

\* m * 10^e for a mantissa of m > 0 ticks and a decimal exponent e.
Scale10(m, e) ==
  IF e >= 0 THEN
       IF e >= 309 THEN INFINITY
       ELSE IF e <= 9 /\ m <= FinMax \div (10 ^ e) THEN Fin(m * (10 ^ e))
       ELSE IF e = 308 /\ m = Tick THEN Huge(1)
       ELSE Big(1)
  ELSE IF -e > 9 THEN Zero ELSE Fin(m \div (10 ^ (-e)))

\* The value of a mantissa of mant ticks (more than FinMax: out of the
\* fixed-point range) with en exponent digits of value exp.
Magnitude(mant, en, exp) ==
  IF mant = 0 THEN Zero
  ELSE IF en = 0 THEN (IF mant > FinMax THEN Big(1) ELSE Fin(mant))
  ELSE IF mant > FinMax THEN (IF exp >= 309 THEN INFINITY ELSE Big(1))
  ELSE Scale10(mant, exp)

\* The mantissa in ticks of n1 integer digits at j and n2 fraction digits.
Mantissa(s, j, n1, n2) ==
  With(DigitsValue(s, j, n1, 0, FinMax \div Tick + 1), LAMBDA ipart :
  With(Min(n2, 7), LAMBDA fdigits :
    IF ipart > FinMax \div Tick THEN FinMax + 1
    ELSE ipart * Tick
           + DigitsValue(s, j + n1 + 1, fdigits, 0, Tick) * (10 ^ (7 - fdigits))))

\* The exponent part at position m, if any: its end ej + en and its value.
Exponent(s, m) ==
  IF m <= Len(s) /\ ToLower(s[m]) = "e"
    THEN With(IF m + 1 <= Len(s) /\ s[m + 1] \in {"+", "-"} THEN m + 2 ELSE m + 1,
              LAMBDA ej :
         With(DigitRun(s, ej), LAMBDA en :
           [en |-> en, end |-> ej + en,
            exp |-> (IF ej = m + 2 /\ s[m + 1] = "-" THEN -1 ELSE 1)
                      * DigitsValue(s, ej, en, 0, 999)]))
  ELSE [en |-> 0, end |-> m, exp |-> 0]

\* Decimal, "inf"/"infinity" and "nan" forms; hexadecimal floats are left out.
strtod(s) ==
  With(SkipSpace(s, 1), LAMBDA i :
  With(IF i <= Len(s) /\ s[i] \in {"+", "-"} THEN i + 1 ELSE i, LAMBDA j :
  With(j > i /\ s[i] = "-", LAMBDA neg :
  With(DigitRun(s, j), LAMBDA n1 :
  With(j + n1 <= Len(s) /\ s[j + n1] = ".", LAMBDA dot :
  With(IF dot THEN DigitRun(s, j + n1 + 1) ELSE 0, LAMBDA n2 :
    IF n1 + n2 > 0
      \* the mantissa ends at m; an exponent counts only with a digit in it
      THEN With(j + n1 + (IF dot THEN 1 + n2 ELSE 0), LAMBDA m :
           With(Exponent(s, m), LAMBDA e :
           With(Magnitude(Mantissa(s, j, n1, n2), e.en, e.exp), LAMBDA mag :
             [val |-> IF neg THEN DNeg(mag) ELSE mag,
              len |-> (IF e.en > 0 THEN e.end ELSE m) - 1])))
    ELSE IF MatchesAt(s, j, <<"i", "n", "f">>)
      THEN [val |-> IF neg THEN Inf(-1) ELSE Inf(1),
            len |-> IF MatchesAt(s, j, <<"i", "n", "f", "i", "n", "i", "t", "y">>)
                      THEN j + 7 ELSE j + 2]
    ELSE IF MatchesAt(s, j, <<"n", "a", "n">>)
      THEN [val |-> NAN, len |-> j + 2]
    ELSE [val |-> Zero, len |-> 0]))))))

(***************************************************************************)
(* The %f conversion: six decimals, rounded (a half rounds up).            *)
(***************************************************************************)
FormatFinite(sign, q) ==
  With(DecStr(q % (10 ^ 6)), LAMBDA frac :
    sign \o DecStr(q \div (10 ^ 6)) \o <<".">> \o Repeat("0", 6 - Len(frac)) \o frac)

FormatF(x) ==
  With(IF x.v < 0 THEN <<"-">> ELSE <<>>, LAMBDA sign :
    IF x.k = "nan" THEN <<"n", "a", "n">>
    ELSE IF x.k = "inf" THEN sign \o <<"i", "n", "f">>
    ELSE IF x.k = "huge"
      THEN sign \o <<"1">> \o Repeat("0", 308) \o <<".">> \o Repeat("0", 6)
    ELSE IF x.k = "big"
      THEN sign \o Repeat("9", 20) \o <<".">> \o Repeat("0", 6)
    ELSE FormatFinite(sign, (Abs(x.v) + 5) \div 10))

(***************************************************************************)
(* Cell references.                                                        *)
(***************************************************************************)
Cells == 0..(NUM_ROWS * NUM_COLS - 1)

\* &spreadsheet[row][column] as a flat index.
CellAt(row, column) == row * NUM_COLS + column

\* Does the pointer point into the spreadsheet array?
InArray(cell) == cell \in Cells

NullCell == [null |-> TRUE, row |-> 0, column |-> 0]

\* C's integer division and remainder (truncation toward zero).
CDiv(a, b) == IF a >= 0 THEN a \div b ELSE -((-a) \div b)

CMod(a, b) == a - b * CDiv(a, b)

get_cell_by_reference(reference) ==
  IF Len(reference) < 2 THEN NullCell
  ELSE IF Ord(reference[1]) >= Ord("a") /\ Ord(reference[1]) <= Ord("z") THEN NullCell
  ELSE With(strtol(From(reference, 2)), LAMBDA r :
         \* r.val is row; *end != 0 when r.len stops short of the text
         IF r.len # Len(reference) - 1 \/ r.val < 1 \/ r.val > NUM_ROWS THEN NullCell
         ELSE [null |-> FALSE, row |-> r.val - 1,
               column |-> Ord(reference[1]) - Ord("A")])

\* A reference whose row number is the array index.
ZeroBasedReference(cell) ==
  <<Chr(CMod(cell, NUM_COLS) + Ord("A"))>> \o FormatD(CDiv(cell, NUM_COLS))

get_cell_reference(cell) ==
  <<Chr(CMod(cell, NUM_COLS) + Ord("A"))>> \o FormatD(CDiv(cell, NUM_COLS) + 1)

\* sprintf writes past the malloc(4) buffer of get_cell_reference.
ReferenceOverflows(cell) == Len(get_cell_reference(cell)) + 1 > 4

(***************************************************************************)
(* Formulas.                                                               *)
(***************************************************************************)
\* What an out-of-bounds access does: the process faults, or the access
\* lands in memory that reads as zero bytes; a store past terms[] then either
\* leaves num_terms alone ("keep") or overwrites it ("clobber").
UBOutcomes == {"trap", "keep", "clobber"}

NullFormula == [null |-> TRUE, terms |-> <<>>, num_terms |-> 0]

ConstantTerm(x) == [isref |-> FALSE, cell |-> 0, constant |-> x]

\* term.constant is left unset for a reference term.
CellTerm(cell) == [isref |-> TRUE, cell |-> cell, constant |-> Zero]

\* Length of the run of characters other than '+' of s starting at i.
RECURSIVE TokenLen(_, _)
TokenLen(s, i) == IF i <= Len(s) /\ s[i] # "+" THEN 1 + TokenLen(s, i + 1) ELSE 0

\* strtok(s + (i - 1), "+") and the strtok(NULL, "+") calls after it: the
\* maximal runs of characters other than '+'.
RECURSIVE Tokens(_, _)
Tokens(s, i) ==
  IF i > Len(s) THEN <<>>
  ELSE IF s[i] = "+" THEN Tokens(s, i + 1)
  ELSE With(TokenLen(s, i), LAMBDA n :
         <<SubSeq(s, i, i + n - 1)>> \o Tokens(s, i + n))

\* The term of one split_term, or no term when it is neither a number nor a
\* reference.
ParseTerm(split_term) ==
  With(strtod(split_term), LAMBDA r :
    IF r.len # 0 THEN [ok |-> TRUE, term |-> ConstantTerm(r.val)]
    ELSE With(get_cell_by_reference(split_term), LAMBDA p :
           IF p.null THEN [ok |-> FALSE, term |-> ConstantTerm(Zero)]
           ELSE [ok |-> TRUE, term |-> CellTerm(CellAt(p.row, p.column))]))

\* formula->terms[k - 1] = term.
Store(terms, k, term) ==
  IF k <= Len(terms) THEN [terms EXCEPT ![k] = term] ELSE Append(terms, term)

\* The while loop of string_to_formula from token i on, with the formula f
\* built so far.
RECURSIVE ParseLoop(_, _, _, _)
ParseLoop(toks, i, f, ub) ==
  IF i > Len(toks) THEN [fault |-> FALSE, formula |-> f]
  ELSE With(ParseTerm(toks[i]), LAMBDA t :
       With([f EXCEPT !.terms = Store(@, f.num_terms + 1, t.term)], LAMBDA g :
         IF ~t.ok THEN [fault |-> FALSE, formula |-> NullFormula]
         ELSE IF f.num_terms < MAX_TERMS
           THEN ParseLoop(toks, i + 1, [g EXCEPT !.num_terms = @ + 1], ub)
         \* terms[MAX_TERMS] lies on num_terms and past the allocation
         ELSE IF ub = "trap" \/ (ub = "clobber" /\ t.term.isref)
           THEN [fault |-> TRUE, formula |-> NullFormula]
         ELSE IF ub = "clobber"
           THEN ParseLoop(toks, i + 1, [g EXCEPT !.num_terms = 0], ub)
         ELSE ParseLoop(toks, i + 1, [g EXCEPT !.num_terms = @ + 1], ub)))

string_to_formula(text, ub) ==
  With(Tokens(text, 2), LAMBDA toks :
    ParseLoop(toks, 1, [null |-> FALSE, terms |-> <<>>, num_terms |-> 0], ub))

\* Is every split_term a number or a resolvable reference?
RECURSIVE AllTermsParse(_)
AllTermsParse(toks) ==
  toks = <<>> \/ (ParseTerm(Head(toks)).ok /\ AllTermsParse(Tail(toks)))

\* Width of the display of a cell (interface.h).
CELL_DISPLAY_WIDTH == 10

\* The text of one term as formula_to_string appends it.
TermText(term) ==
  IF term.isref THEN get_cell_reference(term.cell)
  ELSE Truncate(FormatF(term.constant), 19)

RECURSIVE JoinTerms(_, _, _)
JoinTerms(formula, i, text) ==
  IF i > formula.num_terms THEN text
  ELSE JoinTerms(formula, i + 1,
                 text \o TermText(formula.terms[i])
                      \o (IF i < formula.num_terms THEN <<"+">> ELSE <<>>))

formula_to_string(formula) == JoinTerms(formula, 1, <<"=">>)

\* strcat writes past the malloc(CELL_DISPLAY_WIDTH + 1) buffer.
FormulaTextOverflows(formula) == Len(formula_to_string(formula)) > CELL_DISPLAY_WIDTH

(***************************************************************************)
(* Evaluation.                                                             *)
(***************************************************************************)
\* The evaluation states of the cells, with what one top-level pass has seen:
\* the deepest nesting of evaluate_formula calls, the cells it has marked
\* EVALUATED, whether one of those was marked EVALUATING again, and whether a
\* term found its cell EVALUATING.
Context(st) ==
  [st |-> st, depth |-> 0, done |-> {}, revisit |-> FALSE, circular |-> FALSE]

Enter(ctx, d) == [ctx EXCEPT !.depth = IF d > @ THEN d ELSE @]

\* term.cell->state = EVALUATING;
MarkEvaluating(ctx, cell) ==
  [ctx EXCEPT !.st[cell] = "EVALUATING", !.revisit = @ \/ cell \in ctx.done]

\* term.cell->state = EVALUATED;
MarkEvaluated(ctx, cell) ==
  [ctx EXCEPT !.st[cell] = "EVALUATED", !.done = @ \cup {cell}]

Return(x, ctx) == [ret |-> x, ctx |-> ctx, fault |-> FALSE]

Fault(ctx) == [ret |-> Zero, ctx |-> ctx, fault |-> TRUE]

\* A test that finds no cell under evaluation.
NeverEvaluating(ctx, cell) == FALSE

\* term.cell->state == EVALUATING
IsEvaluating(ctx, cell) == ctx.st[cell] = "EVALUATING"

\* Nesting of evaluate_formula calls beyond which the recursion is followed
\* no further: the call stack is taken as exhausted.
StackLimit == NUM_ROWS * NUM_COLS + 2

\* return NAN; the cell of the term is being evaluated.
CircularDependency(ctx) == Return(NAN, [ctx EXCEPT !.circular = TRUE])

RECURSIVE evaluate_formula(_, _, _, _, _)
RECURSIVE EvalLoop(_, _, _, _, _, _, _)

\* The for loop of evaluate_formula from term i on, at nesting depth d, over
\* the cells ss (their types and values) and the evaluation states ctx.st.
EvalLoop(ss, formula, i, answer, ctx, ub, d) ==
  IF i > formula.num_terms THEN Return(answer, ctx)
  ELSE With(formula.terms[i], LAMBDA term :
       With(term.cell, LAMBDA cell :
         IF ~term.isref
           THEN With(DAdd(answer, term.constant), LAMBDA sum :
                  EvalLoop(ss, formula, i + 1, sum, ctx, ub, d))
         ELSE IF ~InArray(cell)
           \* a pointer outside spreadsheet[][]: zero bytes read as a TEXT cell
           THEN (IF ub = "trap" THEN Fault(ctx) ELSE Return(INFINITY, ctx))
         ELSE IF IsEvaluating(ctx, cell) THEN CircularDependency(ctx)
         ELSE IF ss[cell].type = "FORMULA"
           THEN With(MarkEvaluating(ctx, cell), LAMBDA marked :
                With(evaluate_formula(ss, ss[cell].formula, marked, ub, d + 1),
                     LAMBDA r :
                  IF r.fault THEN r
                  ELSE IF isinf(r.ret) THEN Return(INFINITY, r.ctx)
                  ELSE With(DAdd(answer, r.ret), LAMBDA sum :
                       With(MarkEvaluated(r.ctx, cell), LAMBDA evaluated :
                         EvalLoop(ss, formula, i + 1, sum, evaluated, ub, d)))))
         ELSE IF ss[cell].type = "NUMBER"
           THEN With(DAdd(answer, ss[cell].number), LAMBDA sum :
                With(MarkEvaluated(MarkEvaluating(ctx, cell), cell), LAMBDA evaluated :
                  EvalLoop(ss, formula, i + 1, sum, evaluated, ub, d)))
         ELSE Return(INFINITY, ctx)))

evaluate_formula(ss, formula, ctx, ub, d) ==
  With(Enter(ctx, d), LAMBDA entered :
    IF d > StackLimit THEN Fault(entered)
    ELSE IF formula.null
      \* formula->num_terms read through a null pointer
      THEN (IF ub = "trap" THEN Fault(entered) ELSE Return(Zero, entered))
    ELSE EvalLoop(ss, formula, 1, Zero, entered, ub, d))

(***************************************************************************)
(* The grid and its operations.                                            *)
(***************************************************************************)
NullText == [null |-> TRUE, s |-> <<>>]

TextCell(text, state) ==
  [type |-> "TEXT", text |-> text, number |-> Zero, formula |-> NullFormula,
   state |-> state]

NumberCell(number, state) ==
  [type |-> "NUMBER", text |-> NullText, number |-> number, formula |-> NullFormula,
   state |-> state]

FormulaCell(formula, state) ==
  [type |-> "FORMULA", text |-> NullText, number |-> Zero, formula |-> formula,
   state |-> state]

ParseErrorMsg == <<"Error: Failed to parse formula">>

CircularMsg == <<"Error: circular dependency detected">>

NonNumericMsg == <<"Error: cell contains non-numeric value">>

\* The display string set_cell_value reports for the result of evaluate_formula.
ResultDisplay(result) ==
  IF isnan(result) THEN CircularMsg
  ELSE IF isinf(result) THEN NonNumericMsg
  ELSE Truncate(FormatF(result), CELL_DISPLAY_WIDTH)

States(ss) == [c \in Cells |-> ss[c].state]

\* An evaluation that also stores zero in every Number cell it evaluated.
WithStatesAndZeroes(ss, st) ==
  [c \in Cells |->
     IF ss[c].type = "NUMBER" /\ st[c] = "EVALUATED" THEN NumberCell(Zero, st[c])
     ELSE [ss[c] EXCEPT !.state = st[c]]]

\* The cells after the evaluation: only the state fields are written
\* (term.cell->state = ...).
WithStates(ss, st) == [c \in Cells |-> [ss[c] EXCEPT !.state = st[c]]]

\* What the last operation did.
NoOp ==
  [op |-> "init", cell |-> 0, text |-> <<>>, parsed |-> "none", entered |-> FALSE,
   ret |-> Zero, reports |-> <<>>, fault |-> FALSE, depth |-> 0, revisit |-> FALSE,
   circular |-> FALSE, leaked |-> FALSE]

\* What the last application of a pure function took and gave.
NoProbe ==
  [kind |-> "none", text |-> <<>>, coord |-> [row |-> 0, column |-> 0],
   ptr |-> NullCell, ub |-> "trap", formula |-> NullFormula, fault |-> FALSE,
   rendered |-> <<>>, reparsed |-> NullFormula]

\* The state after model_init(); the evaluation states are those of a zeroed
\* global array.
model_init ==
  /\ spreadsheet = [c \in Cells |-> TextCell(NullText, "NOT_EVALUATED")]
  /\ display = [c \in Cells |-> <<>>]
  /\ last = NoOp
  /\ edits = 0
  /\ crashed = FALSE
  /\ probe = NoProbe

\* The last display string of each cell after the reports of one call.
Displayed(cell, reports) ==
  IF reports = <<>> THEN display
  ELSE [display EXCEPT ![cell] = reports[Len(reports)]]

\* The texts given to set_cell_value.
Ref(column, row) == <<Chr(Ord("A") + column)>> \o FormatD(row)

RECURSIVE Join(_)
Join(texts) ==
  IF texts = <<>> THEN <<>>
  ELSE IF Len(texts) = 1 THEN texts[1]
  ELSE texts[1] \o <<"+">> \o Join(Tail(texts))

FormulaText(texts) == <<"=">> \o Join(texts)

InputTexts ==
  { <<"h">>,
    <<"2">>,
    FormulaText(<<Ref(0, 1)>>),
    FormulaText(<<Ref(1, 1)>>),
    FormulaText(<<Ref(1, 1), Ref(0, 2), <<"3">>>>),
    FormulaText(<<Ref(0, 1), <<"1", "e", "3", "0", "8">>, <<"-", "1", "e", "3", "0", "8">>>>),
    FormulaText(<<<<"a", "1">>>>),
    FormulaText([i \in 1..(MAX_TERMS + 1) |-> <<"1">>]) }

\* string_to_formula on the input texts, computed once.
ParsedInputs ==
  [t \in InputTexts |-> [ub \in UBOutcomes |-> string_to_formula(t, ub)]]

\* The cells once cell holds the parsed formula, before it is evaluated.
WithFormula(cell, formula) ==
  [spreadsheet EXCEPT ![cell] = FormulaCell(formula, spreadsheet[cell].state)]

\* The top-level evaluate_formula call of set_cell_value.
Evaluate(ss, formula, ub) ==
  With(Context(States(ss)), LAMBDA ctx : evaluate_formula(ss, formula, ctx, ub, 1))

\* set_cell_value(row, col, text) with text an "="-prefixed formula.  The
\* outcome depends on ub only when an out-of-bounds access happens, which the
\* trapping run (p0, r0) tells; each bound name is evaluated once.
SetFormula(cell, text) ==
  \E p0 \in {ParsedInputs[text]["trap"]} :
  \E r0 \in {Evaluate(WithFormula(cell, p0.formula), p0.formula, "trap")} :
  \E ub \in (IF p0.fault \/ r0.fault THEN UBOutcomes ELSE {"trap"}) :
  \E p \in {IF ub = "trap" THEN p0 ELSE ParsedInputs[text][ub]} :
  \E ss \in {WithFormula(cell, p.formula)} :
  \E r \in {IF ub = "trap" THEN r0 ELSE Evaluate(ss, p.formula, ub)} :
  LET old == spreadsheet[cell]
      failed == IF p.formula.null THEN <<ParseErrorMsg>> ELSE <<>>
      reports == IF p.fault THEN <<>>
                 ELSE IF r.fault THEN failed
                 ELSE Append(failed, ResultDisplay(r.ret))
  IN  /\ spreadsheet' = IF p.fault \/ r.fault THEN ss ELSE WithStates(ss, r.ctx.st)
      /\ display' = Displayed(cell, reports)
      /\ crashed' = (p.fault \/ r.fault)
      /\ last' = [op |-> "set", cell |-> cell, text |-> text,
                  parsed |-> IF p.fault THEN "fault"
                             ELSE IF p.formula.null THEN "null" ELSE "ok",
                  entered |-> ~p.fault,
                  ret |-> IF p.fault \/ r.fault THEN Zero ELSE r.ret,
                  reports |-> reports,
                  fault |-> (p.fault \/ r.fault),
                  depth |-> IF p.fault THEN 0 ELSE r.ctx.depth,
                  revisit |-> IF p.fault THEN FALSE ELSE r.ctx.revisit,
                  circular |-> IF p.fault THEN FALSE ELSE r.ctx.circular,
                  leaked |-> (old.type = "TEXT" /\ ~old.text.null)]

\* set_cell_value(row, col, text) with any other text: a number or a string.
SetPlain(cell, text) ==
  \E r \in {strtod(text)} :
  LET old == spreadsheet[cell]
  IN  /\ spreadsheet' =
           [spreadsheet EXCEPT ![cell] =
              IF r.len # 0 THEN NumberCell(r.val, old.state)
              ELSE TextCell([null |-> FALSE, s |-> text], old.state)]
      /\ display' = Displayed(cell, <<text>>)
      /\ crashed' = FALSE
      /\ last' = [NoOp EXCEPT !.op = "set", !.cell = cell, !.text = text,
                              !.reports = <<text>>,
                              !.leaked = (old.type = "TEXT" /\ ~old.text.null)]

set_cell_value(cell, text) ==
  /\ ~crashed
  /\ edits < MaxEdits
  /\ edits' = edits + 1
  /\ probe' = probe
  /\ IF text # <<>> /\ text[1] = "=" THEN SetFormula(cell, text)
     ELSE SetPlain(cell, text)

\* A clear that empties every cell of the grid.
ClearWholeGrid(cell) ==
  /\ ~crashed
  /\ edits < MaxEdits
  /\ edits' = edits + 1
  /\ probe' = probe
  /\ spreadsheet' = [c \in Cells |-> TextCell(NullText, spreadsheet[c].state)]
  /\ display' = Displayed(cell, <<<<>>>>)
  /\ crashed' = FALSE
  /\ last' = [NoOp EXCEPT !.op = "clear", !.cell = cell, !.reports = <<<<>>>>]

clear_cell(cell) ==
  /\ ~crashed
  /\ edits < MaxEdits
  /\ edits' = edits + 1
  /\ probe' = probe
  /\ spreadsheet' = [spreadsheet EXCEPT ![cell] = TextCell(NullText, @.state)]
  /\ display' = Displayed(cell, <<<<>>>>)
  /\ crashed' = FALSE
  /\ last' = [NoOp EXCEPT !.op = "clear", !.cell = cell, !.reports = <<<<>>>>]

SetCell == \E cell \in Cells, text \in InputTexts : set_cell_value(cell, text)

ClearCell == \E cell \in Cells : clear_cell(cell)

Init == model_init

Next == SetCell \/ ClearCell

Spec == Init /\ [][Next]_vars

(***************************************************************************)
(* Reference lookup and generation on their own.                           *)
(***************************************************************************)
\* Longest reference text looked up.
MaxRefLen == 3

\* Letters up to one past the last column, digits up to one past the last
\* row, and characters no reference has.
RefChars ==
  {Chr(Ord("A") + k) : k \in 0..NUM_COLS} \cup {Chr(Ord("0") + k) : k \in 0..(NUM_ROWS + 1)}
    \cup {"a", "[", " ", "x", "-"}

RefTexts == UNION {[1..n -> RefChars] : n \in 1..MaxRefLen}

Lookup ==
  /\ probe.kind = "none"
  /\ \E text \in RefTexts :
       probe' = [NoProbe EXCEPT !.kind = "lookup", !.text = text,
                                !.ptr = get_cell_by_reference(text)]
  /\ UNCHANGED <<spreadsheet, display, last, edits, crashed>>

ReferenceOf ==
  /\ probe.kind = "none"
  /\ \E row \in 0..(NUM_ROWS - 1), column \in 0..(NUM_COLS - 1) :
     \E text \in {get_cell_reference(CellAt(row, column))} :
       probe' = [NoProbe EXCEPT !.kind = "reference", !.text = text,
                                !.coord = [row |-> row, column |-> column],
                                !.ptr = get_cell_by_reference(text)]
  /\ UNCHANGED <<spreadsheet, display, last, edits, crashed>>

NextRef == Lookup \/ ReferenceOf

SpecRef == Init /\ [][NextRef]_vars

(***************************************************************************)
(* Formula parsing and rendering on their own.                             *)
(***************************************************************************)
\* Most terms of a generated formula text.
MaxProbeTerms == 3

TermTexts ==
  { Ref(0, 1), Ref(1, 2), Ref(NUM_COLS, 1), Ref(0, NUM_ROWS + 1), <<"a", "1">>,
    <<"x">>, <<"2">>, <<"5", "x">>, <<"0", ".", "0", "0", "0", "0", "0", "0", "1">>,
    <<"1", "e", "3", "0", "8">> }

FormulaTexts ==
  {FormulaText(ts) : ts \in UNION {[1..n -> TermTexts] : n \in 0..MaxProbeTerms}}
    \cup {FormulaText([i \in 1..(MAX_TERMS + 1) |-> <<"1">>])}

\* parse, to_text and parse again.
Parse ==
  /\ probe.kind = "none"
  /\ \E text \in FormulaTexts, ub \in UBOutcomes :
     \E p \in {string_to_formula(text, ub)} :
     \E rendered \in {IF p.formula.null THEN <<>> ELSE formula_to_string(p.formula)} :
       probe' = [NoProbe EXCEPT
                   !.kind = "parse", !.text = text, !.ub = ub,
                   !.formula = p.formula, !.fault = p.fault, !.rendered = rendered,
                   !.reparsed = IF p.formula.null THEN NullFormula
                                ELSE string_to_formula(rendered, ub).formula]
  /\ UNCHANGED <<spreadsheet, display, last, edits, crashed>>

NextParse == Parse

SpecParse == Init /\ [][NextParse]_vars

(***************************************************************************)
(* The grid as the specification reads it.                                 *)
(***************************************************************************)
A1 == CellAt(0, 0)

B1 == CellAt(0, 1)

\* The formula the last set_cell_value stored.
LastFormula == spreadsheet[last.cell].formula

\* The last operation set a cell to a formula that parsed, and returned.
EvaluatedFormula == last.op = "set" /\ last.parsed = "ok" /\ ~last.fault

\* The cells the terms of a formula reference.
Refs(formula) ==
  {formula.terms[i].cell : i \in {j \in 1..formula.num_terms : formula.terms[j].isref}}

FormulaCells(ss, S) == {c \in S : InArray(c) /\ ss[c].type = "FORMULA"}

RECURSIVE Closure(_, _)
Closure(ss, S) ==
  With(S \cup UNION {Refs(ss[c].formula) : c \in FormulaCells(ss, S)}, LAMBDA T :
    IF T = S THEN S ELSE Closure(ss, T))

\* The cells the references of a formula reach, through formulas.
Reached(ss, formula) == Closure(ss, Refs(formula))

\* No reached cell holds a formula that reaches the cell itself.
Acyclic(ss, formula) ==
  \A c \in FormulaCells(ss, Reached(ss, formula)) : c \notin Reached(ss, ss[c].formula)

\* Every reached cell is a cell of the grid and every reached formula parsed.
Resolved(ss, formula) ==
  \A c \in Reached(ss, formula) :
    InArray(c) /\ (ss[c].type = "FORMULA" => ~ss[c].formula.null)

ReachesText(ss, formula) ==
  \E c \in Reached(ss, formula) : InArray(c) /\ ss[c].type = "TEXT"

\* The sum the specification gives a formula over numbers and formulas.
RECURSIVE SumOfTerms(_, _, _, _)
SumOfTerms(ss, formula, i, sum) ==
  IF i > formula.num_terms THEN sum
  ELSE With(formula.terms[i], LAMBDA term :
       With(IF ~term.isref THEN term.constant
            ELSE IF ss[term.cell].type = "NUMBER" THEN ss[term.cell].number
            ELSE SumOfTerms(ss, ss[term.cell].formula, 1, Zero), LAMBDA x :
         SumOfTerms(ss, formula, i + 1, DAdd(sum, x))))

SumOf(ss, formula) == SumOfTerms(ss, formula, 1, Zero)

(***************************************************************************)
(* C1                                                                      *)
(***************************************************************************)
NumericFormula ==
  /\ EvaluatedFormula
  /\ Resolved(spreadsheet, LastFormula)
  /\ ~ReachesText(spreadsheet, LastFormula)
  /\ Acyclic(spreadsheet, LastFormula)

\* C1: setting a cell to a parsed formula whose references reach only Number
\* and Formula cells, with no Text cell and no cycle, reports the sum of its
\* constants and of the values of the cells it references, and no error.
C1_ReportsSum ==
  NumericFormula =>
    With(SumOf(spreadsheet, LastFormula), LAMBDA sum :
      /\ last.ret = sum
      /\ last.reports = <<ResultDisplay(sum)>>
      /\ last.reports # <<CircularMsg>>
      /\ last.reports # <<NonNumericMsg>>)

(***************************************************************************)
(* C2                                                                      *)
(***************************************************************************)
\* The cell and another cell hold formulas that reference each other, each
\* in its first term: an evaluation meets the cycle before any other cell.
MutualReference(ss, a) ==
  \E b \in Cells \ {a} :
    /\ ss[a].type = "FORMULA" /\ ss[b].type = "FORMULA"
    /\ ss[a].formula.num_terms >= 1 /\ ss[a].formula.terms[1] = CellTerm(b)
    /\ ss[b].formula.num_terms >= 1 /\ ss[b].formula.terms[1] = CellTerm(a)

\* C2: when two cells hold formulas that reference each other, setting either
\* of them reports a circular dependency (here with each formula naming the
\* other cell first).
C2_ReportsCircular ==
  (EvaluatedFormula /\ MutualReference(spreadsheet, last.cell)) =>
    last.reports = <<CircularMsg>>

(***************************************************************************)
(* C3                                                                      *)
(***************************************************************************)
\* set_cell_value(A1, "=B1") then set_cell_value(B1, "=A1") on the grid of
\* model_init.
SetA1ThenB1 ==
  /\ edits = 2
  /\ last.op = "set" /\ last.cell = B1 /\ last.text = FormulaText(<<Ref(0, 1)>>)
  /\ spreadsheet[A1].type = "FORMULA"
  /\ spreadsheet[A1].formula = ParsedInputs[FormulaText(<<Ref(1, 1)>>)]["trap"].formula

\* C3: after set_cell_value(A1, "=B1") and set_cell_value(B1, "=A1") on a
\* fresh grid, the last display of A1 and the last display of B1 are both
\* "Error: circular dependency detected".
C3_BothDisplayCircular ==
  SetA1ThenB1 => display[A1] = CircularMsg /\ display[B1] = CircularMsg

(***************************************************************************)
(* C4                                                                      *)
(***************************************************************************)
\* The last formula reaches a Text cell through references without a cycle.
TextDependent ==
  /\ EvaluatedFormula
  /\ Resolved(spreadsheet, LastFormula)
  /\ Acyclic(spreadsheet, LastFormula)
  /\ ReachesText(spreadsheet, LastFormula)

\* C4: the evaluation of a formula that references a Text cell, directly or
\* through Formula cells, reports a non-numeric value, the first time and
\* every later time, from this cell and from any other.
C4_ReportsNonNumeric ==
  TextDependent => isinf(last.ret) /\ last.reports = <<NonNumericMsg>>

(***************************************************************************)
(* C5                                                                      *)
(***************************************************************************)
\* C5: parsing a text of more than MAX_TERMS terms fails, without a fault,
\* so that no formula holds more than MAX_TERMS terms and no term is stored
\* at index MAX_TERMS or beyond.
C5_TooManyTerms ==
  probe.kind = "parse" =>
    /\ Len(Tokens(probe.text, 2)) > MAX_TERMS => probe.formula.null /\ ~probe.fault
    /\ ~probe.formula.null =>
         probe.formula.num_terms <= MAX_TERMS /\ Len(probe.formula.terms) <= MAX_TERMS

(***************************************************************************)
(* C6                                                                      *)
(***************************************************************************)
\* C6: when the formula of set_cell_value fails to parse, evaluate_formula
\* is not entered, the parse error is the only display reported, and the
\* call returns without a fault.
C6_NoEvaluationAfterParseError ==
  (last.op = "set" /\ last.parsed = "null") =>
    /\ ~last.entered
    /\ last.reports = <<ParseErrorMsg>>
    /\ ~last.fault

(***************************************************************************)
(* C7                                                                      *)
(***************************************************************************)
IsUpper(c) == Ord(c) >= Ord("A") /\ Ord(c) <= Ord("Z")

\* One uppercase letter followed by the digits of an integer in 1..NUM_ROWS.
WellFormedReference(text) ==
  /\ Len(text) >= 2
  /\ IsUpper(text[1])
  /\ \A i \in 2..Len(text) : IsDigit(text[i])
  /\ strtol(From(text, 2)).val \in 1..NUM_ROWS

\* C7: get_cell_by_reference returns a cell only for an uppercase letter
\* followed by an integer in 1..NUM_ROWS, and every cell it returns has
\* 0 <= row < NUM_ROWS and 0 <= column < NUM_COLS.
C7_LookupInGrid ==
  (probe.kind = "lookup" /\ ~probe.ptr.null) =>
    /\ WellFormedReference(probe.text)
    /\ probe.ptr.row \in 0..(NUM_ROWS - 1)
    /\ probe.ptr.column \in 0..(NUM_COLS - 1)

(***************************************************************************)
(* C8                                                                      *)
(***************************************************************************)
\* C8: for every coordinate (row, col) of the grid, get_cell_by_reference of
\* get_cell_reference of the cell at (row, col) is the cell at (row, col),
\* and the reference fits the buffer get_cell_reference allocates.
C8_LookupOfReference ==
  probe.kind = "reference" =>
    /\ probe.ptr = [null |-> FALSE, row |-> probe.coord.row, column |-> probe.coord.column]
    /\ ~ReferenceOverflows(CellAt(probe.coord.row, probe.coord.column))

C8_Witness ==
  /\ probe.kind = "reference"
  /\ probe.coord = [row |-> NUM_ROWS - 1, column |-> NUM_COLS - 1]
  /\ probe.text = Ref(NUM_COLS - 1, NUM_ROWS)
  /\ probe.ptr = [null |-> FALSE, row |-> NUM_ROWS - 1, column |-> NUM_COLS - 1]

(***************************************************************************)
(* C9                                                                      *)
(***************************************************************************)
\* The same number of terms and, term by term, the same constant or cell.
SameTerms(f, g) ==
  /\ ~g.null
  /\ g.num_terms = f.num_terms
  /\ \A i \in 1..f.num_terms : g.terms[i] = f.terms[i]

\* The text parsed, and the text of its formula fits the buffer
\* formula_to_string allocates.
ParsedAndRendered ==
  /\ probe.kind = "parse" /\ ~probe.fault /\ ~probe.formula.null
  /\ ~FormulaTextOverflows(probe.formula)

\* C9: the text formula_to_string gives for a formula parsed from a text
\* parses to a formula with the same terms in the same order.
C9_RoundTrip == ParsedAndRendered => SameTerms(probe.formula, probe.reparsed)

(***************************************************************************)
(* C10                                                                     *)
(***************************************************************************)
\* Most terms of a formula that are put in every order; a longer formula has
\* each two neighbouring terms exchanged.
MaxPermuted == 3

TermOrders(n) ==
  IF n <= MaxPermuted THEN Permutations(1..n)
  ELSE {[i \in 1..n |-> IF i = a THEN a + 1 ELSE IF i = a + 1 THEN a ELSE i] :
          a \in 1..(n - 1)}

Permuted(formula, order) ==
  [formula EXCEPT !.terms = [i \in 1..formula.num_terms |-> formula.terms[order[i]]]]

\* The last formula references Number cells only.
OverNumbers ==
  /\ EvaluatedFormula
  /\ \A c \in Refs(LastFormula) : InArray(c) /\ spreadsheet[c].type = "NUMBER"

\* The value of a term over Number cells.
TermValue(term) == IF term.isref THEN spreadsheet[term.cell].number ELSE term.constant

RECURSIVE AbsSum(_, _)
AbsSum(formula, i) ==
  IF i > formula.num_terms THEN 0
  ELSE Abs(TermValue(formula.terms[i]).v) + AbsSum(formula, i + 1)

\* Every term is an integer and every sum of terms, in any order, is an
\* integer a double holds exactly.
NoRounding ==
  /\ \A i \in 1..LastFormula.num_terms :
       With(TermValue(LastFormula.terms[i]), LAMBDA x : IsExact(x) /\ x.v % Tick = 0)
  /\ AbsSum(LastFormula, 1) <= FinMax

SameInEveryOrder ==
  \A order \in TermOrders(LastFormula.num_terms) :
    Evaluate(spreadsheet, Permuted(LastFormula, order), "trap").ret = last.ret

\* C10 as stated: when every cell a formula references holds a Number, the
\* formula evaluates to the same result with its terms in any order.
C10_AnyOrder == OverNumbers => SameInEveryOrder

\* C10: when every cell a formula references holds a Number, and no addition
\* of its terms rounds or overflows, the formula evaluates to the same result
\* with its terms in any order.
C10_AnyOrderWhenExact == (OverNumbers /\ NoRounding) => SameInEveryOrder

C10_Witness ==
  /\ OverNumbers
  /\ NoRounding
  /\ Cardinality(Refs(LastFormula)) >= 2
  /\ Cardinality({TermValue(LastFormula.terms[i]) : i \in 1..LastFormula.num_terms}) >= 2
  /\ IsExact(last.ret)
  /\ last.ret = SumOf(spreadsheet, LastFormula)

(***************************************************************************)
(* C11                                                                     *)
(***************************************************************************)
\* The last call was a set_cell_value or a clear_cell that returned.
Completed == last.op \in {"set", "clear"} /\ ~last.fault

\* The type of a cell and the member of its value that is set agree.
Consistent(c) ==
  /\ c.type = "TEXT" => c.formula.null
  /\ c.type = "NUMBER" => c.text.null /\ c.formula.null
  /\ c.type = "FORMULA" => c.text.null /\ ~c.formula.null

\* C11: after every set_cell_value or clear_cell that returned, a Text cell
\* holds a text or none, a Number cell a number, and a Formula cell a formula
\* that is not null, also after a formula that failed to parse.
C11_KindAndValueAgree == Completed => \A c \in Cells : Consistent(spreadsheet[c])

(***************************************************************************)
(* C12                                                                     *)
(***************************************************************************)
\* C12: every edit releases the text or formula the cell owned before it
\* stores the new value: no allocation is left without an owner.
C12_NothingLeaked == Completed => ~last.leaked

(***************************************************************************)
(* C13                                                                     *)
(***************************************************************************)
\* The type of a cell and the value it holds, without its evaluation state.
KindAndValue(c) == [type |-> c.type, text |-> c.text, number |-> c.number,
                    formula |-> c.formula]

EmptyText(c) == c.type = "TEXT" /\ c.text.null

\* This step is a call of clear_cell.
ClearStep == last'.op = "clear" /\ edits' = edits + 1

\* C13: clear_cell(c) leaves c an empty Text cell, reports the empty display
\* for c, and leaves the type and value (and the display) of every other
\* cell as they were, whatever c held.
C13_ClearFrame ==
  [][ClearStep =>
       /\ EmptyText(spreadsheet'[last'.cell])
       /\ last'.reports = << <<>> >>
       /\ display'[last'.cell] = <<>>
       /\ \A d \in Cells \ {last'.cell} :
            /\ KindAndValue(spreadsheet'[d]) = KindAndValue(spreadsheet[d])
            /\ display'[d] = display[d]]_vars

C13_Witness ==
  /\ last.op = "clear"
  /\ EmptyText(spreadsheet[last.cell])
  /\ display[last.cell] = <<>>
  /\ \E d \in Cells : spreadsheet[d].type = "NUMBER"
  /\ \E d \in Cells : spreadsheet[d].type = "FORMULA" /\ ~spreadsheet[d].formula.null
  /\ \E d \in Cells : spreadsheet[d].type = "FORMULA" /\ spreadsheet[d].formula.null

(***************************************************************************)
(* C14                                                                     *)
(***************************************************************************)
\* C14: after every set_cell_value that returned, whatever it reported, no
\* cell of the grid is in state EVALUATING.
C14_NoCellEvaluating ==
  (last.op = "set" /\ ~last.fault) =>
    \A c \in Cells : spreadsheet[c].state # "EVALUATING"

(***************************************************************************)
(* C15                                                                     *)
(***************************************************************************)
\* The references of the last formula reach no cycle.
AcyclicFormula ==
  /\ EvaluatedFormula
  /\ Resolved(spreadsheet, LastFormula)
  /\ Acyclic(spreadsheet, LastFormula)

\* C15: when the cells reached from the formula of the edited cell contain
\* no cycle, set_cell_value does not report a circular dependency.
C15_CircularOnlyOnCycle ==
  AcyclicFormula => ~isnan(last.ret) /\ last.reports # <<CircularMsg>>

(***************************************************************************)
(* C16                                                                     *)
(***************************************************************************)
\* C16: once a term finds its cell in state EVALUATING, the top-level
\* evaluation reports a circular dependency, not a non-numeric value and not
\* a number.
C16_CircularAborts ==
  (EvaluatedFormula /\ last.circular) => last.reports = <<CircularMsg>>

(***************************************************************************)
(* C17                                                                     *)
(***************************************************************************)
\* C17: within one top-level evaluation no cell that was marked EVALUATED is
\* marked EVALUATING again, also when it is reached along two paths (here
\* with no cycle among the cells reached).
C17_EvaluatedIsTerminal == AcyclicFormula => ~last.revisit

(***************************************************************************)
(* C18                                                                     *)
(***************************************************************************)
FormulaCount == Cardinality({c \in Cells : spreadsheet[c].type = "FORMULA"})

\* The evaluate_formula calls nested inside the top-level call.
NestedCalls == last.depth - 1

\* The last call evaluated a formula that parsed.
EvaluatedParsed == last.op = "set" /\ last.parsed = "ok"

\* C18: every top-level evaluation of a parsed formula ends, cycles and
\* self-references included, and the evaluate_formula calls nested inside it
\* are never more than the Formula cells, hence never more than the cells of
\* the grid.
C18_BoundedRecursion ==
  EvaluatedParsed =>
    /\ NestedCalls <= FormulaCount
    /\ NestedCalls <= NUM_ROWS * NUM_COLS
    /\ last.depth <= StackLimit

C18_Witness ==
  /\ EvaluatedFormula
  /\ Resolved(spreadsheet, LastFormula)
  /\ last.cell \in Reached(spreadsheet, LastFormula)
  /\ isnan(last.ret)
  /\ FormulaCount >= 3
  /\ NestedCalls = FormulaCount

(***************************************************************************)
(* C19                                                                     *)
(***************************************************************************)
\* The whole text is a number, or the whole text is a reference that
\* get_cell_by_reference resolves.
WholeTerm(split_term) ==
  \/ strtod(split_term).len = Len(split_term)
  \/ ~get_cell_by_reference(split_term).null

\* A text of at most MAX_TERMS terms was given to string_to_formula.
ParsedTerms ==
  /\ probe.kind = "parse"
  /\ ~probe.fault
  /\ Len(Tokens(probe.text, 2)) <= MAX_TERMS

\* C19: string_to_formula fails whenever a '+'-separated substring is
\* neither entirely a number nor entirely a resolvable reference (such as
\* "5x"), and gives a formula only when every substring is one of the two.
C19_InvalidTerm ==
  ParsedTerms =>
    (~probe.formula.null <=>
       \A i \in 1..Len(Tokens(probe.text, 2)) : WholeTerm(Tokens(probe.text, 2)[i]))

(***************************************************************************)
(* C20                                                                     *)
(***************************************************************************)
\* This step is a call of set_cell_value.
SetStep == last'.op = "set" /\ edits' = edits + 1

\* The formulas string_to_formula can give for a text.
FormulasOf(text) == {ParsedInputs[text][ub].formula : ub \in UBOutcomes}

====
